---- MODULE Spec2Model ----
(***************************************************************************)
(* Model of src/window.rs: the interaction state of State (mousedown,      *)
(* last_mousepos, start_mousepos), the Uniforms value and its GPU buffer,  *)
(* the unbounded CanvasEvent channel filled by the DOM listeners, the      *)
(* event loop of run() (recv, State::input, State::update) and the         *)
(* animation-frame callback that calls State::render.                      *)
(*                                                                         *)
(* The program runs on one thread: a listener or the animation-frame       *)
(* callback can only run while the event loop is suspended in              *)
(* receiver.recv() (pc = "recv").                                          *)
(***************************************************************************)
EXTENDS Integers, Sequences, FiniteSets, TLC

\* ------------------------------------------------------------------ bounds
\* Number of CanvasEvents the listeners send in one behaviour.
MaxEvents == 4

\* Number of animation-frame callbacks that run in one behaviour.
MaxTicks == 2

\* Coordinates a mousemove listener sends (already scaled to the canvas and
\* cast to u32 at window.rs:535-537).
Positions == { <<50, 60>>, <<70, 80>> }

\* ------------------------------------------------------------ data model
\* Option::None of last_mousepos / start_mousepos; Some((x, y)) is <<x, y>>.
None == << >>

\* enum CanvasEvent
MouseMove(x, y) == <<"MouseMove", x, y>>
MouseDown == <<"MouseDown">>
MouseUp == <<"MouseUp">>

CanvasEvent == { MouseMove(p[1], p[2]) : p \in Positions } \cup { MouseDown, MouseUp }

\* let MOUSE_INACTIVE = [-1000.0, 0.0];
MOUSE_INACTIVE == << -1000, 0 >>

\* Uniforms::new()
Uniforms_new == [ mouse_pos |-> << -1000, 0 >>, seed |-> << 0, 0 >> ]

\* `x as f32` for a u32 x: round to nearest, ties to even, on a 24 bit
\* significand.  ExcessBits(n) is the number of low bits that do not fit.
RECURSIVE ExcessBits(_)
ExcessBits(n) == IF n < 2^24 THEN 0 ELSE 1 + ExcessBits(n \div 2)

ToF32(n) ==
    LET e == ExcessBits(n)
        p == 2^e
        q == n \div p
        r == n % p
    IN  IF e = 0 THEN n
        ELSE IF 2 * r > p \/ (2 * r = p /\ q % 2 = 1) THEN (q + 1) * p
        ELSE q * p

\* .map_or(MOUSE_INACTIVE, |(x, y)| [x as f32, y as f32])
MapOrInactive(opt) ==
    IF opt = None THEN MOUSE_INACTIVE ELSE << ToF32(opt[1]), ToF32(opt[2]) >>

VARIABLES
    mousedown,        \* State.mousedown
    last_mousepos,    \* State.last_mousepos
    start_mousepos,   \* State.start_mousepos
    uniforms,         \* State.uniforms
    uniforms_buffer,  \* contents of State.uniforms_buffer
    textures,         \* contents of texture, texture_target and the surface image
    channel,          \* events sent and not yet received
    pc,               \* position of the event loop: "recv", "input", "update"
    event,            \* the event the loop body is working on
    raf_pending,      \* animation-frame callbacks registered and not yet run
    failed,           \* a render tick has panicked on a surface error
    ticks,            \* animation-frame callbacks run so far
    gpu_calls,        \* calls made by render: acquire, submit, present
    frames,           \* history: one record per tick that reached submit
    sent,             \* history: every event a listener sent, in order
    recvd,            \* history: every event receiver.recv() returned, in order
    calls             \* history: State::input / State::update calls, in order

vars == << mousedown, last_mousepos, start_mousepos, uniforms, uniforms_buffer,
           textures, channel, pc, event, raf_pending, failed, ticks, gpu_calls,
           frames, sent, recvd, calls >>

interaction == << mousedown, last_mousepos, start_mousepos >>
gpu == << uniforms, uniforms_buffer, textures >>
render_vars == << raf_pending, failed, ticks, gpu_calls, frames >>
loop_vars == << pc, event, recvd, calls >>

\* ------------------------------------------------------------ State::input
\* State::input with a MouseMove dropped while the button is up.
input_drops_idle_moves(st, e) ==
    IF e = MouseDown THEN
        [ st EXCEPT !.mousedown = TRUE, !.start_mousepos = st.last_mousepos ]
    ELSE IF e = MouseUp THEN
        [ st EXCEPT !.mousedown = FALSE ]
    ELSE IF st.mousedown THEN
        [ st EXCEPT !.last_mousepos = << e[2], e[3] >> ]
    ELSE st

\* State::input with MouseUp also forgetting the drag start.
input_release_clears_start(st, e) ==
    IF e = MouseDown THEN
        [ st EXCEPT !.mousedown = TRUE, !.start_mousepos = st.last_mousepos ]
    ELSE IF e = MouseUp THEN
        [ st EXCEPT !.mousedown = FALSE, !.start_mousepos = None ]
    ELSE
        [ st EXCEPT !.last_mousepos = << e[2], e[3] >> ]

\* The interaction state after State::input(e) on state st.
input(st, e) ==
    IF e = MouseDown THEN
        [ st EXCEPT !.mousedown = TRUE, !.start_mousepos = st.last_mousepos ]
    ELSE IF e = MouseUp THEN
        [ st EXCEPT !.mousedown = FALSE ]
    ELSE
        [ st EXCEPT !.last_mousepos = << e[2], e[3] >> ]

\* ----------------------------------------------------------- State::update
\* State::update with the seed read from last_mousepos.
update_seed_from_last(st) ==
    LET mousepos == MapOrInactive(st.last_mousepos)
        seed == MapOrInactive(st.last_mousepos)
    IN  [ mouse_pos |-> IF ~st.mousedown THEN MOUSE_INACTIVE ELSE mousepos,
          seed |-> seed ]

\* State::update without the `if !mousedown` override.
update_without_release(st) ==
    LET mousepos == MapOrInactive(st.last_mousepos)
        seed == MapOrInactive(st.start_mousepos)
    IN  [ mouse_pos |-> mousepos, seed |-> seed ]

\* The Uniforms value State::update computes from the interaction state.
update(st) ==
    LET mousepos == MapOrInactive(st.last_mousepos)
        seed == MapOrInactive(st.start_mousepos)
    IN  [ mouse_pos |-> IF ~st.mousedown THEN MOUSE_INACTIVE ELSE mousepos,
          seed |-> seed ]

\* ----------------------------------------------------------- State::render
\* The fragment shader is not part of the model: the output of a pass is the
\* uninterpreted term of its pipeline, the texture it samples and the uniform
\* buffer it reads.
Shade(pipeline, sampled, uni) == << pipeline, sampled, uni >>

\* State::render with the copy recorded before the compute pass.
RenderCommands_copy_first ==
    << [ op |-> "copy", name |-> "copy_texture_to_texture", pipeline |-> "none",
         reads |-> "texture_target", writes |-> "texture" ],
       [ op |-> "pass", name |-> "compute pass", pipeline |-> "compute_pipeline",
         reads |-> "texture", writes |-> "texture_target" ],
       [ op |-> "pass", name |-> "render pass", pipeline |-> "render_pipeline",
         reads |-> "texture_target", writes |-> "view" ] >>

\* The commands State::render records into its encoder, in order.
RenderCommands ==
    << [ op |-> "pass", name |-> "compute pass", pipeline |-> "compute_pipeline",
         reads |-> "texture", writes |-> "texture_target" ],
       [ op |-> "copy", name |-> "copy_texture_to_texture", pipeline |-> "none",
         reads |-> "texture_target", writes |-> "texture" ],
       [ op |-> "pass", name |-> "render pass", pipeline |-> "render_pipeline",
         reads |-> "texture_target", writes |-> "view" ] >>

\* One command executed by the queue on texture memory m.
ExecCommand(c, m, uni) ==
    IF c.op = "pass"
    THEN [ m EXCEPT ![c.writes] = Shade(c.pipeline, m[c.reads], uni) ]
    ELSE [ m EXCEPT ![c.writes] = m[c.reads] ]

\* queue.submit: the command buffer executed in recording order.
RECURSIVE Submit(_, _, _)
Submit(cmds, m, uni) ==
    IF cmds = << >> THEN m
    ELSE Submit(Tail(cmds), ExecCommand(Head(cmds), m, uni), uni)

\* What each command of the buffer read when it ran.
RECURSIVE SubmitReads(_, _, _)
SubmitReads(cmds, m, uni) ==
    IF cmds = << >> THEN << >>
    ELSE << m[Head(cmds).reads] >>
         \o SubmitReads(Tail(cmds), ExecCommand(Head(cmds), m, uni), uni)

\* The calls of one successful State::render, in order.
RenderSteps ==
    << "get_current_texture" >>
    \o [ i \in 1..Len(RenderCommands) |-> RenderCommands[i].name ]
    \o << "submit", "present" >>

\* ------------------------------------------------------------------- Init
Init ==
    /\ mousedown = FALSE
    /\ last_mousepos = None
    /\ start_mousepos = None
    /\ uniforms = Uniforms_new
    /\ uniforms_buffer = Uniforms_new
    /\ textures = [ texture |-> << >>, texture_target |-> << >>, view |-> << >> ]
    /\ channel = << >>
    /\ pc = "recv"
    /\ event = None
    /\ raf_pending = 1
    /\ failed = FALSE
    /\ ticks = 0
    /\ gpu_calls = [ acquire |-> 0, submit |-> 0, present |-> 0 ]
    /\ frames = << >>
    /\ sent = << >>
    /\ recvd = << >>
    /\ calls = << >>

\* -------------------------------------------------------------- callbacks
\* A scheduler that runs a callback in the middle of the loop body.
CallbackMayRun_anywhere(at) == at \in { "recv", "input", "update" }

\* Listeners and the animation-frame closure are callbacks of the one thread
\* run() is polled on: they run only while the loop is suspended in
\* receiver.recv(), the only await of the loop; state.input and state.update
\* follow it with no suspension point between or inside them.
CallbackMayRun(at) == at = "recv"

\* -------------------------------------------------------------- listeners
\* sender2.send(e) on the unbounded channel.
ChannelSend(q, e) == Append(q, e)

\* A DOM listener closure runs and sends its event.
Listener ==
    /\ CallbackMayRun(pc)
    /\ Len(sent) < MaxEvents
    /\ \E e \in CanvasEvent :
        /\ channel' = ChannelSend(channel, e)
        /\ sent' = Append(sent, e)
    /\ UNCHANGED << interaction, gpu, render_vars, loop_vars >>

\* ------------------------------------------------------------- event loop
\* recv() that leaves the event it returned in the channel.
ChannelRecv_keeps_head(q) == [ value |-> Head(q), rest |-> q ]

\* The value receiver.recv() resolves to, and what stays in the channel.
ChannelRecv(q) == [ value |-> Head(q), rest |-> Tail(q) ]

\* Some(event) = receiver.recv()
Recv ==
    /\ pc = "recv"
    /\ channel # << >>
    /\ event' = ChannelRecv(channel).value
    /\ channel' = ChannelRecv(channel).rest
    /\ recvd' = Append(recvd, event')
    /\ pc' = "input"
    /\ UNCHANGED << interaction, gpu, render_vars, sent, calls >>

\* state.input(&event)
Input ==
    /\ pc = "input"
    /\ LET st == input([ mousedown |-> mousedown, last_mousepos |-> last_mousepos,
                         start_mousepos |-> start_mousepos ], event)
       IN  /\ mousedown' = st.mousedown
           /\ last_mousepos' = st.last_mousepos
           /\ start_mousepos' = st.start_mousepos
    /\ calls' = Append(calls, << "input", event >>)
    /\ pc' = "update"
    /\ UNCHANGED << gpu, render_vars, channel, event, sent, recvd >>

\* state.update()
Update ==
    /\ pc = "update"
    /\ uniforms' = update([ mousedown |-> mousedown, last_mousepos |-> last_mousepos,
                            start_mousepos |-> start_mousepos ])
    /\ uniforms_buffer' = uniforms'
    /\ calls' = Append(calls, << "update" >>)
    /\ pc' = "recv"
    /\ UNCHANGED << interaction, textures, render_vars, channel, event, sent, recvd >>

\* ------------------------------------------------- animation-frame callback
\* A failed tick that had already begun the compute pass (LoadOp::Clear).
RenderErr_clears_target(m) == [ m EXCEPT !.texture_target = << "cleared" >> ]

\* What a failed get_current_texture()? leaves of texture memory.
RenderErr(m) == m

\* What a render tick that acquired its image leaves of texture memory.
RenderOk(m, uni) == Submit(RenderCommands, m, uni)

\* A closure that registers itself again whatever render() returned.
Reschedule_always(pending, ok) == (pending - 1) + 1

\* Callbacks registered after a tick: the one that ran is consumed, and the
\* closure registers itself again only when render().unwrap() returned.
Reschedule(pending, ok) == IF ok THEN (pending - 1) + 1 ELSE pending - 1

\* The closure of run(): state2.render().unwrap(); request_animation_frame(f).
\* get_current_texture() succeeds or fails as the surface decides.
Frame ==
    /\ CallbackMayRun(pc)
    /\ raf_pending > 0
    /\ ticks < MaxTicks
    /\ ticks' = ticks + 1
    /\ \E ok \in BOOLEAN :
        /\ raf_pending' = Reschedule(raf_pending, ok)
        /\ failed' = (failed \/ ~ok)
        /\ IF ok
           THEN /\ textures' = RenderOk(textures, uniforms_buffer)
                /\ gpu_calls' = [ acquire |-> gpu_calls.acquire + 1,
                                  submit |-> gpu_calls.submit + 1,
                                  present |-> gpu_calls.present + 1 ]
                /\ frames' = Append(frames,
                        [ steps |-> RenderSteps,
                          reads |-> SubmitReads(RenderCommands, textures, uniforms_buffer),
                          uni |-> uniforms_buffer,
                          out |-> textures'.texture_target,
                          shown |-> textures'.view,
                          mousedown |-> mousedown,
                          last_mousepos |-> last_mousepos,
                          start_mousepos |-> start_mousepos,
                          pc |-> pc,
                          nevents |-> Len(recvd) ])
           ELSE /\ textures' = RenderErr(textures)
                /\ gpu_calls' = [ gpu_calls EXCEPT !.acquire = @ + 1 ]
                /\ frames' = frames
    /\ UNCHANGED << interaction, uniforms, uniforms_buffer, channel, loop_vars, sent >>

Next == Listener \/ Recv \/ Input \/ Update \/ Frame

Spec == Init /\ [][Next]_vars

\* The event loop is a spawned task that every send wakes: once an event is
\* queued the loop receives it, and the loop body runs to its next recv().
FairSpec == Spec /\ WF_vars(Recv) /\ WF_vars(Input) /\ WF_vars(Update)

\* ============================================================== properties
\* The sentinel position of the specification, and a u32 pair as the f32
\* pair the uniforms hold.
Sentinel == << -1000, 0 >>
AsF32(p) == << ToF32(p[1]), ToF32(p[2]) >>

\* The events State::input has processed so far.
Processed == IF pc = "input" THEN SubSeq(recvd, 1, Len(recvd) - 1) ELSE recvd

\* The greatest index of seq holding an element of S, 0 when there is none.
LastIndexIn(seq, S) ==
    LET I == { i \in 1..Len(seq) : seq[i] \in S }
    IN  IF I = {} THEN 0 ELSE CHOOSE i \in I : \A j \in I : j <= i

Moves == { e \in CanvasEvent : e[1] = "MouseMove" }

\* Reference fold: payload of the most recent MouseMove.
RefLastPos(seq) ==
    LET i == LastIndexIn(seq, Moves)
    IN  IF i = 0 THEN None ELSE << seq[i][2], seq[i][3] >>

\* Reference fold: last_mouse_pos as it was just before the most recent MouseDown.
RefStartPos(seq) ==
    LET j == LastIndexIn(seq, { MouseDown })
    IN  IF j = 0 THEN None ELSE RefLastPos(SubSeq(seq, 1, j - 1))

\* Reference fold: the most recent MouseDown/MouseUp is a MouseDown.
RefMouseDown(seq) ==
    LET k == LastIndexIn(seq, { MouseDown, MouseUp })
    IN  k # 0 /\ seq[k] = MouseDown

\* C1: after State::input has processed any sequence of events from the
\* initial state, last_mouse_pos is the payload of the most recent MouseMove
\* (None without one) whatever mousedown is, start_mouse_pos is the value
\* last_mouse_pos had just before the most recent MouseDown (None without
\* one), and mousedown is true iff the most recent MouseDown/MouseUp was a
\* MouseDown.
C1_InputIsReferenceFold ==
    /\ last_mousepos = RefLastPos(Processed)
    /\ start_mousepos = RefStartPos(Processed)
    /\ mousedown = RefMouseDown(Processed)

\* A move with the button up, a press, a move while dragging and a release
\* have been processed.
C1_Witness ==
    /\ Len(Processed) = 4
    /\ Processed[1] \in Moves /\ Processed[2] = MouseDown
    /\ Processed[3] \in Moves /\ Processed[4] = MouseUp
    /\ Processed[1] # Processed[3]
    /\ start_mousepos # None /\ last_mousepos # start_mousepos

\* C2: after every State::update the Uniforms value and the bytes in the GPU
\* uniform buffer are: mouse_pos = last_mouse_pos if mousedown and
\* last_mouse_pos is present, else the sentinel; seed = start_mouse_pos if
\* present, else the sentinel.  MouseMove(50,60), MouseDown, MouseMove(70,80)
\* ends with mouse_pos = (70,80) and seed = (50,60).
C2_UniformsAfterUpdate ==
    /\ (pc = "recv" /\ recvd # << >>) =>
        /\ uniforms.mouse_pos =
               IF mousedown /\ last_mousepos # None
               THEN AsF32(last_mousepos) ELSE Sentinel
        /\ uniforms.seed =
               IF start_mousepos # None THEN AsF32(start_mousepos) ELSE Sentinel
        /\ uniforms_buffer = uniforms
    /\ (pc = "recv" /\ recvd = << MouseMove(50, 60), MouseDown, MouseMove(70, 80) >>) =>
        /\ uniforms_buffer.mouse_pos = << 70, 80 >>
        /\ uniforms_buffer.seed = << 50, 60 >>

\* Scenario 2 has been processed and its update has run.
C2_Witness ==
    /\ pc = "recv"
    /\ recvd = << MouseMove(50, 60), MouseDown, MouseMove(70, 80) >>
    /\ calls[Len(calls)] = << "update" >>

\* C3: whenever mousedown is false the uniform mouse_pos is the sentinel,
\* whatever last_mouse_pos is: in the initial state, after each processed
\* event, and in every frame a render tick draws.  (Between State::input and
\* the State::update that follows it in the same loop iteration nothing else
\* runs; the uniforms are compared where the loop waits for an event.)
C3_IdleMouseIsSentinel ==
    /\ (pc = "recv" /\ ~mousedown) =>
        /\ uniforms.mouse_pos = Sentinel
        /\ uniforms_buffer.mouse_pos = Sentinel
    /\ \A n \in 1..Len(frames) :
        ~frames[n].mousedown => frames[n].uni.mouse_pos = Sentinel

\* A drag with a known position has been released and a frame drawn after it.
C3_Witness ==
    /\ pc = "recv" /\ ~mousedown /\ last_mousepos # None
    /\ Len(recvd) >= 3 /\ recvd[Len(recvd)] = MouseUp
    /\ recvd[Len(recvd) - 1] = MouseDown
    /\ frames # << >> /\ frames[Len(frames)].nevents = Len(recvd)

\* A MouseDown has been processed and its update has run.
SomeMouseDownProcessed == pc = "recv" /\ \E j \in 1..Len(recvd) : recvd[j] = MouseDown

\* A MouseDown that came after a MouseMove has been processed and updated.
SomeMouseDownAfterMove ==
    /\ pc = "recv"
    /\ \E i, j \in 1..Len(recvd) : i < j /\ recvd[i] \in Moves /\ recvd[j] = MouseDown

\* C4 (as stated): the uniform seed is the sentinel only before the first
\* MouseDown: in every state reached after at least one MouseDown has been
\* processed (input followed by update) the seed uniform is not the sentinel.
C4_SeedSetAfterAnyMouseDown ==
    SomeMouseDownProcessed =>
        uniforms.seed # Sentinel /\ uniforms_buffer.seed # Sentinel

\* C4 (amended): in every state reached after at least one MouseDown that a
\* MouseMove preceded has been processed (input followed by update) the seed
\* uniform is not the sentinel.
C4_SeedSetAfterMouseDownWithPosition ==
    SomeMouseDownAfterMove =>
        uniforms.seed # Sentinel /\ uniforms_buffer.seed # Sentinel

\* A drag that started at a known position has been released.
C4_Witness ==
    /\ SomeMouseDownAfterMove
    /\ recvd[Len(recvd)] = MouseUp
    /\ uniforms_buffer.seed = << 50, 60 >>

\* C5: before any event has been processed both uniform fields hold the
\* sentinel: every frame rendered before the first event is handled reads
\* mouse_pos = (-1000,0) and seed = (-1000,0) from the GPU uniform buffer.
C5_FirstFramesReadSentinels ==
    \A n \in 1..Len(frames) :
        frames[n].nevents = 0 =>
            frames[n].uni = [ mouse_pos |-> Sentinel, seed |-> Sentinel ]

\* C6: processing a MouseUp or a MouseMove (input followed by update) leaves
\* the seed uniform unchanged; processing a MouseDown makes it the position
\* known at that MouseDown.  State::input writes no uniform, so the seed
\* before the event is the seed the update step starts from.
C6_SeedChangedOnlyByMouseDown ==
    [][ pc = "update" =>
          IF event = MouseDown
          THEN /\ uniforms'.seed =
                      IF last_mousepos # None THEN AsF32(last_mousepos) ELSE Sentinel
               /\ uniforms_buffer'.seed = uniforms'.seed
          ELSE /\ uniforms'.seed = uniforms.seed
               /\ uniforms_buffer'.seed = uniforms_buffer.seed ]_vars

\* The events whose loop iteration (input, then update) has finished.
Completed == IF pc = "recv" THEN recvd ELSE SubSeq(recvd, 1, Len(recvd) - 1)

\* The State::input and State::update calls that processing seq makes.
CallsFor(seq) ==
    [ i \in 1..(2 * Len(seq)) |->
        IF i % 2 = 1 THEN << "input", seq[(i + 1) \div 2] >> ELSE << "update" >> ]

\* The channel and the loop body lose, duplicate and reorder nothing.
FifoOneInputOneUpdate ==
    /\ recvd \o channel = sent
    /\ pc # "recv" => event = recvd[Len(recvd)]
    /\ calls = IF pc = "update"
               THEN CallsFor(Completed) \o << << "input", event >> >>
               ELSE CallsFor(Completed)

\* C7: every CanvasEvent sent into the channel is consumed by the event loop
\* exactly once and in the order sent, none lost, duplicated or reordered
\* (the events received followed by those still queued are always the events
\* sent, and the loop keeps catching up with all of them), and each consumed
\* event triggers exactly one State::input call followed by exactly one
\* State::update call before the next event is consumed.
C7_FifoOneInputOneUpdate ==
    /\ []FifoOneInputOneUpdate
    /\ []<>(pc = "recv" /\ recvd = sent)

\* Three different events were sent; two are fully processed, one is queued.
C7_Witness ==
    /\ pc = "recv" /\ Len(recvd) = 2 /\ Len(channel) = 1
    /\ recvd[1] # recvd[2] /\ channel[1] # recvd[1] /\ channel[1] # recvd[2]
    /\ Len(calls) = 4

\* The calls of a successful render tick, in the order the claim gives.
TickOrder ==
    << "get_current_texture", "compute pass", "copy_texture_to_texture",
       "render pass", "submit", "present" >>

\* C8: each successful render tick acquires the surface image, runs pass A
\* (reads the source texture and the uniform buffer, writes the target
\* texture), copies the whole target texture into the source texture, runs
\* pass B (reads the target texture, writes the swapchain image), submits
\* once and presents, in that order.  After every successful tick the source
\* texture equals the target texture, and pass A of tick n+1 reads exactly the
\* pass-A output of tick n.
C8_RenderTickOrder ==
    /\ \A n \in 1..Len(frames) :
        /\ frames[n].steps = TickOrder
        /\ frames[n].out = << "compute_pipeline", frames[n].reads[1], frames[n].uni >>
        /\ frames[n].reads[2] = frames[n].out
        /\ frames[n].shown = << "render_pipeline", frames[n].out, frames[n].uni >>
        /\ n > 1 => frames[n].reads[1] = frames[n - 1].out
    /\ gpu_calls.submit = Len(frames) /\ gpu_calls.present = Len(frames)
    /\ frames # << >> =>
        /\ textures.texture = textures.texture_target
        /\ textures.texture_target = frames[Len(frames)].out

\* Two ticks have succeeded, with different uniforms in the buffer.
C8_Witness ==
    /\ Len(frames) = 2
    /\ frames[1].uni # frames[2].uni
    /\ frames[2].reads[1] = frames[1].out

\* C9: a render tick whose image acquisition fails acquires once and records,
\* submits and presents nothing: the source texture, the target texture, the
\* uniform buffer and the interaction state are unchanged by it.
C9_FailedTickChangesNothing ==
    [][ (~failed /\ failed') =>
          /\ textures' = textures
          /\ uniforms_buffer' = uniforms_buffer /\ uniforms' = uniforms
          /\ interaction' = interaction
          /\ frames' = frames
          /\ gpu_calls' = [ gpu_calls EXCEPT !.acquire = @ + 1 ] ]_vars

\* A tick failed after a frame was drawn during a drag.
C9_Witness ==
    /\ failed /\ Len(frames) = 1 /\ gpu_calls.acquire = 2
    /\ mousedown /\ textures.texture # << >>

\* C10: once a render tick has failed the animation-frame callback is not
\* registered again and no later tick, submit or present occurs; as long as
\* no tick has failed exactly one callback is registered after every tick,
\* whether or not any event arrives.
C10_FailureStopsRenderLoop ==
    /\ [](failed => raf_pending = 0)
    /\ [](~failed => raf_pending = 1)
    /\ [][ failed => (ticks' = ticks /\ gpu_calls' = gpu_calls /\ frames' = frames) ]_vars

\* With no event ever sent, a tick succeeded and the next one failed.
C10_Witness ==
    /\ sent = << >> /\ failed /\ Len(frames) = 1 /\ ticks = 2 /\ raf_pending = 0

\* C11: under every interleaving of render ticks with event processing, no
\* tick runs between State::input and the State::update that follows it, nor
\* inside update: every frame drawn after at least one event was received
\* reads from the GPU buffer the (mouse_pos, seed) pair that the derivation
\* gives for the interaction state as it is at that tick, and a render tick
\* changes neither the interaction state nor the uniforms.
C11_FramesReadCompletedUpdate ==
    /\ [](\A n \in 1..Len(frames) :
            /\ frames[n].pc = "recv"
            /\ frames[n].nevents > 0 =>
                /\ frames[n].uni.mouse_pos =
                       IF frames[n].mousedown /\ frames[n].last_mousepos # None
                       THEN AsF32(frames[n].last_mousepos) ELSE Sentinel
                /\ frames[n].uni.seed =
                       IF frames[n].start_mousepos # None
                       THEN AsF32(frames[n].start_mousepos) ELSE Sentinel)
    /\ [][ ticks' # ticks =>
             /\ interaction' = interaction
             /\ uniforms' = uniforms /\ uniforms_buffer' = uniforms_buffer ]_vars

\* Two frames drawn during one drag, a move processed between them, and
\* another event already queued when the second was drawn.
C11_Witness ==
    /\ Len(frames) = 2 /\ mousedown /\ channel # << >>
    /\ frames[1].nevents > 0 /\ frames[2].nevents > frames[1].nevents
    /\ frames[1].mousedown /\ frames[2].mousedown
    /\ frames[1].uni.mouse_pos # frames[2].uni.mouse_pos
    /\ frames[2].uni.seed # Sentinel

====
